---- MODULE Spec2Model ----
(***************************************************************************)
(* Wellness Chat Coach API (src/main.py).                                  *)
(*                                                                         *)
(* A Python str is modelled as a sequence of characters, each character a  *)
(* one-character string, so that lower(), strip() and the "in" operator    *)
(* are computed position by position.  The canned reply texts are          *)
(* sequences of text runs: a run is a maximal piece of a source literal    *)
(* without line breaks, and the characters NL, BULLET, ENDASH and EMDASH   *)
(* are runs of their own.                                                  *)
(***************************************************************************)
EXTENDS Integers, Sequences, FiniteSets

VARIABLES
  text,    \* generate_reply: the argument of the call under observation
  pc,      \* generate_reply: "called" while the call runs, "returned" after
  result,  \* generate_reply: the value returned (<<>> before the return)
  reqs     \* POST /api/chat: per connection, the request being served

vars == <<text, pc, result, reqs>>

----------------------------------------------------------------------------
(* Characters *)

NL     == "\n"
BULLET == "U+2022"
ENDASH == "U+2013"
EMDASH == "U+2014"

\* LATIN SMALL LETTER LONG S: a lower-case letter that is no lower() image of
\* its upper-case letter: upper() maps it to "S", lower() maps "S" to "s" and
\* leaves the long s alone.
LONG_S == "U+017F"

UpperCase ==
  <<"A","B","C","D","E","F","G","H","I","J","K","L","M",
    "N","O","P","Q","R","S","T","U","V","W","X","Y","Z">>

LowerCase ==
  <<"a","b","c","d","e","f","g","h","i","j","k","l","m",
    "n","o","p","q","r","s","t","u","v","w","x","y","z">>

Letters == 1..Len(UpperCase)

LowerOf == [c \in {UpperCase[i] : i \in Letters} |->
              LowerCase[CHOOSE i \in Letters : UpperCase[i] = c]]

UpperOf == [c \in {LowerCase[i] : i \in Letters} |->
              UpperCase[CHOOSE i \in Letters : LowerCase[i] = c]]

\* str.lower() on one character: an upper-case letter maps to its lower-case
\* letter, every other character is left alone.
ToLower(c) == IF c \in DOMAIN LowerOf THEN LowerOf[c] ELSE c

\* The characters str.strip() removes (str.isspace()).
IsSpace(c) == c \in {" ", "\t", "\n", "\r"}

----------------------------------------------------------------------------
(* String operations used by generate_reply *)

\* text.lower()
Lower(s) == [i \in 1..Len(s) |-> ToLower(s[i])]

\* s.strip(): drop the leading and the trailing white space.
Strip(s) ==
  LET keep == {i \in 1..Len(s) : ~IsSpace(s[i])}
      lo   == CHOOSE i \in keep : \A j \in keep : i <= j
      hi   == CHOOSE i \in keep : \A j \in keep : j <= i
  IN  IF keep = {} THEN <<>> ELSE SubSeq(s, lo, hi)

\* q.startswith(k) in the place of k in q.
ContainsPrefix(k, q) == Len(k) <= Len(q) /\ SubSeq(q, 1, Len(k)) = k

\* k matched against the white-space separated words of q in the place of
\* k in q.
ContainsToken(k, q) ==
  \E i \in 1..(Len(q) - Len(k) + 1) :
    /\ SubSeq(q, i, i + Len(k) - 1) = k
    /\ i = 1 \/ IsSpace(q[i - 1])
    /\ i + Len(k) - 1 = Len(q) \/ IsSpace(q[i + Len(k)])

\* k in q
Contains(k, q) ==
  \E i \in 1..(Len(q) - Len(k) + 1) : SubSeq(q, i, i + Len(k) - 1) = k

\* any(k in q for k in ks)
AnyIn(ks, q) == \E i \in 1..Len(ks) : Contains(ks[i], q)

----------------------------------------------------------------------------
(* Static data of generate_reply *)

\* src/main.py:36-39: the trailer of every reply.
disclaimer ==
  <<"Note: This is general wellness information and not a medical diagnosis. ">>
  \o <<"Consult a qualified clinician for personalized care or urgent concerns.">>

\* The tongue keywords with "pain" added to them.
TongueKeywordsWithPain ==
  << <<"t","o","n","g","u","e">>,
     <<"c","o","a","t","i","n","g">>,
     <<"u","l","c","e","r">>,
     <<"s","o","r","e","s">>,
     <<"o","r","a","l">>,
     <<"t","h","r","u","s","h">>,
     <<"m","o","u","t","h">>,
     <<"p","a","i","n">> >>

\* src/main.py:42
TongueKeywords ==
  << <<"t","o","n","g","u","e">>,
     <<"c","o","a","t","i","n","g">>,
     <<"u","l","c","e","r">>,
     <<"s","o","r","e","s">>,
     <<"o","r","a","l">>,
     <<"t","h","r","u","s","h">>,
     <<"m","o","u","t","h">> >>

\* src/main.py:43-51
TongueReply ==
  <<"Tongue health quick read", ":", NL>>
  \o <<BULLET, " Typical: pink, moist, thin white coating.", NL>>
  \o <<BULLET, " Thick white/yellow coating: dehydration, oral hygiene issues, or possible fungal overgrowth.", NL>>
  \o <<BULLET, " Red/pebbled or very smooth: possible nutrient gaps (B12, iron), irritation, or heat/spice.", NL>>
  \o <<BULLET, " Ulcers/sores: consider trauma, stress, vitamin B/iron, or viral causes.", NL>>
  \o <<"Care steps: hydrate, brush tongue gently, avoid irritants, ensure balanced nutrition, and see a dentist/clinician if persistent (>2 weeks), painful, or with fever.", NL, NL>>
  \o disclaimer

\* src/main.py:54
FitnessKeywords ==
  << <<"w","o","r","k","o","u","t">>,
     <<"t","r","a","i","n","i","n","g">>,
     <<"g","y","m">>,
     <<"s","t","r","e","n","g","t","h">>,
     <<"c","a","r","d","i","o">>,
     <<"h","y","p","e","r","t","r","o","p","h","y">>,
     <<"f","a","t"," ","l","o","s","s">>,
     <<"m","u","s","c","l","e">> >>

\* src/main.py:55-62
FitnessReply ==
  <<"Smart training plan:", NL>>
  \o <<BULLET, " Weekly: 2", ENDASH, "3 strength sessions + 150", ENDASH, "300 min moderate cardio (or 75", ENDASH, "150 min vigorous).", NL>>
  \o <<BULLET, " Lifts: focus on compounds (squat, hinge, push, pull), add accessories; 6", ENDASH, "12 reps for hypertrophy, 2", ENDASH, "3 RIR.", NL>>
  \o <<BULLET, " Progression: add small load or reps weekly; deload every 4", ENDASH, "8 weeks.", NL>>
  \o <<BULLET, " Recovery: sleep 7", ENDASH, "9h, protein 1.6", ENDASH, "2.2 g/kg/day, manage stress.", NL, NL>>
  \o disclaimer

\* src/main.py:65
NutritionKeywords ==
  << <<"d","i","e","t">>,
     <<"n","u","t","r","i","t","i","o","n">>,
     <<"p","r","o","t","e","i","n">>,
     <<"c","a","l","o","r","i","e">>,
     <<"m","a","c","r","o">>,
     <<"m","e","a","l">>,
     <<"k","e","t","o">>,
     <<"f","a","s","t","i","n","g">>,
     <<"f","i","b","e","r">> >>

\* src/main.py:66-74
NutritionReply ==
  <<"Nutrition basics:", NL>>
  \o <<BULLET, " Build plates: 40% veggies, 30% lean protein, 20% smart carbs, 10% healthy fats.", NL>>
  \o <<BULLET, " Protein: ~1.6", ENDASH, "2.2 g/kg/day; distribute across meals.", NL>>
  \o <<BULLET, " Fiber: 25", ENDASH, "38 g/day from plants; hydrate well.", NL>>
  \o <<BULLET, " Weight goals: modest deficit (250", ENDASH, "500 kcal) for fat loss; small surplus for muscle gain.", NL>>
  \o <<BULLET, " Adherence beats perfection", EMDASH, "choose a pattern you can sustain.", NL, NL>>
  \o disclaimer

\* src/main.py:77
RecordsKeywords ==
  << <<"r","e","c","o","r","d","s">>,
     <<"l","a","b","s">>,
     <<"b","l","o","o","d"," ","w","o","r","k">>,
     <<"m","e","d","i","c","a","l"," ","h","i","s","t","o","r","y">>,
     <<"m","e","d","i","c","a","t","i","o","n">>,
     <<"s","y","m","p","t","o","m">>,
     <<"l","o","g">>,
     <<"t","r","e","n","d">> >>

\* src/main.py:78-85
RecordsReply ==
  <<"Better health record-keeping:", NL>>
  \o <<BULLET, " Keep a simple log with dates for symptoms, diagnoses, meds/supplements, allergies, and key vitals (BP, HR, weight).", NL>>
  \o <<BULLET, " Track labs as a table (test, value, range, date); add notes and questions for your visit.", NL>>
  \o <<BULLET, " Export/share a concise summary (1 page) with your clinician.", NL>>
  \o <<BULLET, " Secure storage and backups are important; protect sensitive info.", NL, NL>>
  \o disclaimer

\* src/main.py:88
WellnessKeywords ==
  << <<"s","l","e","e","p">>,
     <<"s","t","r","e","s","s">>,
     <<"w","e","l","l","n","e","s","s">>,
     <<"e","n","e","r","g","y">>,
     <<"r","e","c","o","v","e","r","y">>,
     <<"h","a","b","i","t">>,
     <<"r","o","u","t","i","n","e">>,
     <<"m","i","n","d","f","u","l","n","e","s","s">>,
     <<"h","y","d","r","a","t","e">> >>

\* src/main.py:89-96
WellnessReply ==
  <<"Core wellness habits:", NL>>
  \o <<BULLET, " Sleep: 7", ENDASH, "9 hours, consistent schedule, dark/cool room.", NL>>
  \o <<BULLET, " Stress: brief daily decompression (walks, breathing, journaling).", NL>>
  \o <<BULLET, " Movement: stand and stroll breaks every hour; sunlight in the morning.", NL>>
  \o <<BULLET, " Hydration: ~30", ENDASH, "35 ml/kg/day; more in heat/exercise.", NL, NL>>
  \o disclaimer

\* src/main.py:99
UrgentKeywords ==
  << <<"c","h","e","s","t"," ","p","a","i","n">>,
     <<"s","h","o","r","t","n","e","s","s"," ","o","f"," ","b","r","e","a","t","h">>,
     <<"s","e","v","e","r","e">>,
     <<"e","m","e","r","g","e","n","c","y">>,
     <<"f","a","i","n","t","e","d">>,
     <<"s","u","i","c","i","d","a","l">>,
     <<"s","t","r","o","k","e">> >>

\* The urgent reply with one line break before the disclaimer.
UrgentReplyOneBreak ==
  <<"Your symptoms could be urgent. Please seek immediate in-person medical care or call local emergency services.", NL>>
  \o disclaimer

\* src/main.py:100-103
UrgentReply ==
  <<"Your symptoms could be urgent. Please seek immediate in-person medical care or call local emergency services.", NL, NL>>
  \o disclaimer

\* src/main.py:106-110
DefaultReply ==
  <<"I can help with training plans, macro-friendly meals, tongue health cues, organizing medical records, and daily wellness habits. ">>
  \o <<"Tell me more about your goal or question (e.g., '3-day full-body plan' or 'interpret white tongue coating').", NL, NL>>
  \o disclaimer

----------------------------------------------------------------------------
(* generate_reply *)

\* generate_reply with the fitness check before the tongue check.
generate_replyFitnessFirst(t) ==
  LET q == Strip(Lower(t))
  IN  IF AnyIn(FitnessKeywords, q) THEN FitnessReply
      ELSE IF AnyIn(TongueKeywords, q) THEN TongueReply
      ELSE IF AnyIn(NutritionKeywords, q) THEN NutritionReply
      ELSE IF AnyIn(RecordsKeywords, q) THEN RecordsReply
      ELSE IF AnyIn(WellnessKeywords, q) THEN WellnessReply
      ELSE IF AnyIn(UrgentKeywords, q) THEN UrgentReply
      ELSE DefaultReply

\* generate_reply with the safety check first.
generate_replySafetyFirst(t) ==
  LET q == Strip(Lower(t))
  IN  IF AnyIn(UrgentKeywords, q) THEN UrgentReply
      ELSE IF AnyIn(TongueKeywords, q) THEN TongueReply
      ELSE IF AnyIn(FitnessKeywords, q) THEN FitnessReply
      ELSE IF AnyIn(NutritionKeywords, q) THEN NutritionReply
      ELSE IF AnyIn(RecordsKeywords, q) THEN RecordsReply
      ELSE IF AnyIn(WellnessKeywords, q) THEN WellnessReply
      ELSE DefaultReply

\* generate_reply without its last return statement: None (no text) when no
\* category matches.
generate_replyNoDefault(t) ==
  LET q == Strip(Lower(t))
  IN  IF AnyIn(TongueKeywords, q) THEN TongueReply
      ELSE IF AnyIn(FitnessKeywords, q) THEN FitnessReply
      ELSE IF AnyIn(NutritionKeywords, q) THEN NutritionReply
      ELSE IF AnyIn(RecordsKeywords, q) THEN RecordsReply
      ELSE IF AnyIn(WellnessKeywords, q) THEN WellnessReply
      ELSE IF AnyIn(UrgentKeywords, q) THEN UrgentReply
      ELSE <<>>

\* src/main.py:30-110
generate_reply(t) ==
  LET q == Strip(Lower(t))
  IN  IF AnyIn(TongueKeywords, q) THEN TongueReply
      ELSE IF AnyIn(FitnessKeywords, q) THEN FitnessReply
      ELSE IF AnyIn(NutritionKeywords, q) THEN NutritionReply
      ELSE IF AnyIn(RecordsKeywords, q) THEN RecordsReply
      ELSE IF AnyIn(WellnessKeywords, q) THEN WellnessReply
      ELSE IF AnyIn(UrgentKeywords, q) THEN UrgentReply
      ELSE DefaultReply

----------------------------------------------------------------------------
(* POST /api/chat *)

\* src/main.py:22-24: ChatRequest built from a JSON body; an absent history
\* becomes the empty list (default_factory=list).
ChatRequest(body) ==
  [message |-> body.message,
   history |-> IF "history" \in DOMAIN body THEN body.history ELSE <<>>]

\* src/main.py:26-27
ChatResponse(reply) == [reply |-> reply]

\* A handler that reads the message from a place every request in service
\* writes to: it answers the message of another request when one is waiting.
chatSharedMessage(req) ==
  LET others == {c \in DOMAIN reqs : reqs[c].pc = "received" /\ reqs[c].req # req}
  IN  IF others = {} THEN ChatResponse(generate_reply(req.message))
      ELSE ChatResponse(generate_reply(reqs[CHOOSE c \in others : TRUE].req.message))

\* A handler that puts the first turn of the history before the message.
chatWithHistory(req) ==
  IF req.history = <<>> THEN ChatResponse(generate_reply(req.message))
  ELSE ChatResponse(generate_reply(req.history[1].content \o <<" ">> \o req.message))

\* src/main.py:122-124: the handler's body.
chat(req) ==
  LET reply == generate_reply(req.message)
  IN  ChatResponse(reply)

----------------------------------------------------------------------------
(* Bounds and inputs *)

\* Words per message passed to generate_reply.
MaxWords == 2

\* Connections served at the same time.
MaxConn == 2

\* The categories of the specification, section 4.1, in its order, with the
\* keywords it lists for each.
SpecKeywords ==
  <<
  \* category 1
  << <<"t","o","n","g","u","e">>,
     <<"c","o","a","t","i","n","g">>,
     <<"u","l","c","e","r">>,
     <<"s","o","r","e","s">>,
     <<"o","r","a","l">>,
     <<"t","h","r","u","s","h">>,
     <<"m","o","u","t","h">> >>,
  \* category 2
  << <<"w","o","r","k","o","u","t">>,
     <<"t","r","a","i","n","i","n","g">>,
     <<"g","y","m">>,
     <<"s","t","r","e","n","g","t","h">>,
     <<"c","a","r","d","i","o">>,
     <<"h","y","p","e","r","t","r","o","p","h","y">>,
     <<"f","a","t"," ","l","o","s","s">>,
     <<"m","u","s","c","l","e">> >>,
  \* category 3
  << <<"d","i","e","t">>,
     <<"n","u","t","r","i","t","i","o","n">>,
     <<"p","r","o","t","e","i","n">>,
     <<"c","a","l","o","r","i","e">>,
     <<"m","a","c","r","o">>,
     <<"m","e","a","l">>,
     <<"k","e","t","o">>,
     <<"f","a","s","t","i","n","g">>,
     <<"f","i","b","e","r">> >>,
  \* category 4
  << <<"r","e","c","o","r","d","s">>,
     <<"l","a","b","s">>,
     <<"b","l","o","o","d"," ","w","o","r","k">>,
     <<"m","e","d","i","c","a","l"," ","h","i","s","t","o","r","y">>,
     <<"m","e","d","i","c","a","t","i","o","n">>,
     <<"s","y","m","p","t","o","m">>,
     <<"l","o","g">>,
     <<"t","r","e","n","d">> >>,
  \* category 5
  << <<"s","l","e","e","p">>,
     <<"s","t","r","e","s","s">>,
     <<"w","e","l","l","n","e","s","s">>,
     <<"e","n","e","r","g","y">>,
     <<"r","e","c","o","v","e","r","y">>,
     <<"h","a","b","i","t">>,
     <<"r","o","u","t","i","n","e">>,
     <<"m","i","n","d","f","u","l","n","e","s","s">>,
     <<"h","y","d","r","a","t","e">> >>,
  \* category 6
  << <<"c","h","e","s","t"," ","p","a","i","n">>,
     <<"s","h","o","r","t","n","e","s","s"," ","o","f"," ","b","r","e","a","t","h">>,
     <<"s","e","v","e","r","e">>,
     <<"e","m","e","r","g","e","n","c","y">>,
     <<"f","a","i","n","t","e","d">>,
     <<"s","u","i","c","i","d","a","l">>,
     <<"s","t","r","o","k","e">> >>
  >>

NumCategories == Len(SpecKeywords)

AllSpecKeywords ==
  UNION {{SpecKeywords[c][n] : n \in 1..Len(SpecKeywords[c])} : c \in 1..NumCategories}

RECURSIVE ReplaceSpaces(_, _)
\* k with every space replaced by the characters s.
ReplaceSpaces(k, s) ==
  IF k = <<>> THEN <<>>
  ELSE (IF Head(k) = " " THEN s ELSE <<Head(k)>>) \o ReplaceSpaces(Tail(k), s)

MultiWordKeywords == {k \in AllSpecKeywords : \E i \in 1..Len(k) : k[i] = " "}

\* What a multi-word keyword becomes when its space is dropped, doubled or
\* replaced by a tab.
BrokenSpaces == {<<>>, <<" ", " ">>, <<"\t">>}

BrokenKeywords == {ReplaceSpaces(k, s) : k \in MultiWordKeywords, s \in BrokenSpaces}

\* Words that contain no keyword.
Fillers == {<<"b">>, <<"h","i">>, <<LONG_S,"t","r","e","s","s">>}

Words == AllSpecKeywords \cup BrokenKeywords \cup Fillers

\* The words that may precede the last word of a message: one keyword of
\* each category, and a letter.
Companions ==
  { <<"t","o","n","g","u","e">>,
    <<"g","y","m">>,
    <<"k","e","t","o">>,
    <<"l","o","g">>,
    <<"s","t","r","e","s","s">>,
    <<"s","e","v","e","r","e">>,
    <<"b">> }

Separators == {<<>>, <<" ">>}

RECURSIVE Prefixes(_)
\* n companion words, each followed by a separator.
Prefixes(n) ==
  IF n = 0 THEN {<<>>}
  ELSE {p \o c \o s : p \in Prefixes(n - 1), c \in Companions, s \in Separators}

\* str.upper() on one character.
ToUpper(c) ==
  IF c = LONG_S THEN "S" ELSE IF c \in DOMAIN UpperOf THEN UpperOf[c] ELSE c

\* The ways a message is written: as it is, in upper case, in mixed case
\* (every other character in upper case), with white space around it.
Writings == {"plain", "upper", "mixed", "padded"}

Written(s, w) ==
  CASE w = "upper"  -> [i \in 1..Len(s) |-> ToUpper(s[i])]
    [] w = "mixed"  -> [i \in 1..Len(s) |-> IF i % 2 = 1 THEN ToUpper(s[i]) ELSE s[i]]
    [] w = "padded" -> <<" ">> \o s \o <<"\t", "\n">>
    [] OTHER        -> s

\* The arguments generate_reply is called with: the empty message, or up to
\* MaxWords - 1 companion words followed by a last word, in any writing.
IsMessage(t) ==
  \E w \in Writings :
    \/ t = Written(<<>>, w)
    \/ \E n \in 0..(MaxWords - 1) :
         \E p \in Prefixes(n), last \in Words : t = Written(p \o last, w)

\* The messages the chat clients send.
ChatMessages ==
  { <<>>,
    <<"h","e","l","l","o">>,
    <<"w","o","r","k","o","u","t">>,
    <<"W","O","R","K","O","U","T">>,
    <<"s","e","v","e","r","e"," ","s","t","r","e","s","s">>,
    <<"S","T","R","E","S","S">>,
    <<LONG_S,"t","r","e","s","s">> }

\* The histories the chat clients send.
Histories ==
  { <<>>,
    <<[role |-> "user", content |-> <<"t","o","n","g","u","e">>],
      [role |-> "assistant", content |-> <<"o","k">>]>> }

\* The JSON bodies of POST /api/chat: the history is optional.
Bodies ==
  {[message |-> m] : m \in ChatMessages}
    \cup {[message |-> m, history |-> h] : m \in ChatMessages, h \in Histories}

Conns == 1..MaxConn

NoRequest == [message |-> <<>>, history |-> <<>>]
NoResponse == [reply |-> <<>>]

----------------------------------------------------------------------------
(* Calls of generate_reply *)

InitCall ==
  /\ IsMessage(text)
  /\ pc = "called"
  /\ result = <<>>
  /\ reqs = [c \in Conns |-> [pc |-> "idle", body |-> [message |-> <<>>],
                               req |-> NoRequest, resp |-> NoResponse]]

\* The call runs to its return statement.
Return ==
  /\ pc = "called"
  /\ result' = generate_reply(text)
  /\ pc' = "returned"
  /\ UNCHANGED <<text, reqs>>

NextCall == Return

SpecCall == InitCall /\ [][NextCall]_vars

----------------------------------------------------------------------------
(* The server *)

Init ==
  /\ text = <<>>
  /\ pc = "idle"
  /\ result = <<>>
  /\ reqs = [c \in Conns |-> [pc |-> "idle", body |-> [message |-> <<>>],
                               req |-> NoRequest, resp |-> NoResponse]]

\* A request arrives on a free connection and is validated.
Receive(c, body) ==
  /\ reqs[c].pc = "idle"
  /\ reqs' = [reqs EXCEPT ![c] = [pc |-> "received", body |-> body,
                                  req |-> ChatRequest(body), resp |-> NoResponse]]
  /\ UNCHANGED <<text, pc, result>>

\* The handler runs on the request of connection c.
Chat(c) ==
  /\ reqs[c].pc = "received"
  /\ reqs' = [reqs EXCEPT ![c].pc = "responded", ![c].resp = chat(reqs[c].req)]
  /\ UNCHANGED <<text, pc, result>>

\* The response is sent and the connection is free again.
Send(c) ==
  /\ reqs[c].pc = "responded"
  /\ reqs' = [reqs EXCEPT ![c] = [pc |-> "idle", body |-> [message |-> <<>>],
                                  req |-> NoRequest, resp |-> NoResponse]]
  /\ UNCHANGED <<text, pc, result>>

Next ==
  \/ \E c \in Conns, body \in Bodies : Receive(c, body)
  \/ \E c \in Conns : Chat(c)
  \/ \E c \in Conns : Send(c)

Spec == Init /\ [][Next]_vars

----------------------------------------------------------------------------
(* What the specification says, stated independently of generate_reply *)

\* k occurs in t as a contiguous run of characters.
Occurs(k, t) ==
  \E i \in 0..(Len(t) - Len(k)) : \A j \in 1..Len(k) : t[i + j] = k[j]

\* t with every upper-case letter replaced by its lower-case letter.
LetterCaseIgnored(t) == [i \in 1..Len(t) |-> ToLower(t[i])]

\* The categories with a keyword occurring in t, letter case ignored.
Hits(t) ==
  LET lt == LetterCaseIgnored(t)
  IN  {c \in 1..NumCategories :
         \E n \in 1..Len(SpecKeywords[c]) : Occurs(SpecKeywords[c][n], lt)}

First(S) == CHOOSE c \in S : \A d \in S : c <= d

\* The reply of category c; the default reply follows the last category.
Template(c) ==
  CASE c = 1 -> TongueReply
    [] c = 2 -> FitnessReply
    [] c = 3 -> NutritionReply
    [] c = 4 -> RecordsReply
    [] c = 5 -> WellnessReply
    [] c = 6 -> UrgentReply
    [] OTHER -> DefaultReply

Branches == 1..(NumCategories + 1)

Str_tongue_workout == <<"t","o","n","g","u","e"," ","w","o","r","k","o","u","t">>
Str_severe_stress == <<"s","e","v","e","r","e"," ","s","t","r","e","s","s">>
Str_blog == <<"b","l","o","g">>
Str_stroke == <<"s","t","r","o","k","e">>

----------------------------------------------------------------------------
(* Claims about generate_reply, checked under SpecCall *)

\* C1: the reply is the template of the lowest-numbered category with a
\* keyword occurring in the message, whatever later categories also match;
\* a message containing "tongue" gets a reply starting with "Tongue health
\* quick read".
TheoremC1 ==
  pc = "returned" =>
    LET h == Hits(text)
    IN  /\ h # {} => result = Template(First(h))
        /\ 1 \in h => result[1] = "Tongue health quick read"

\* "tongue workout" (two categories match) was answered with the tongue reply.
WitnessC1 ==
  /\ pc = "returned"
  /\ text = Str_tongue_workout
  /\ {1, 2} \subseteq Hits(text)
  /\ result = TongueReply

\* C2: the urgent-safety reply is returned exactly when an urgent keyword
\* occurs and no keyword of categories 1-5 does; with both, the reply is the
\* earlier category's and not the urgent one.
TheoremC2 ==
  pc = "returned" =>
    LET h     == Hits(text)
        topic == h \ {NumCategories}
    IN  /\ result = UrgentReply <=> (NumCategories \in h /\ topic = {})
        /\ (NumCategories \in h /\ topic # {}) =>
             /\ result = Template(First(topic))
             /\ result # UrgentReply

\* "severe stress" was answered with the general-wellness reply.
WitnessC2 ==
  /\ pc = "returned"
  /\ text = Str_severe_stress
  /\ Hits(text) = {5, 6}
  /\ result = WellnessReply

\* C3: the default reply is returned exactly when no keyword of any category
\* occurs; the empty and the white-space-only message get it.
TheoremC3 ==
  pc = "returned" =>
    /\ result = DefaultReply <=> Hits(text) = {}
    /\ (\A i \in 1..Len(text) : IsSpace(text[i])) => result = DefaultReply

\* A message of white space only was answered with the default reply.
WitnessC3 ==
  /\ pc = "returned"
  /\ Len(text) > 0
  /\ \A i \in 1..Len(text) : IsSpace(text[i])
  /\ result = DefaultReply

\* r ends with the disclaimer, preceded by exactly two line breaks that
\* follow the reply's own text.
EndsWithDisclaimer(r) ==
  LET n == Len(r)
      d == Len(disclaimer)
  IN  /\ n >= d + 3
      /\ SubSeq(r, n - d + 1, n) = disclaimer
      /\ r[n - d] = NL
      /\ r[n - d - 1] = NL
      /\ r[n - d - 2] # NL

\* C4: every reply, on each of the seven branches, ends with two line breaks
\* and the disclaimer.
TheoremC4 ==
  /\ pc = "returned" => EndsWithDisclaimer(result)
  /\ \A c \in Branches : EndsWithDisclaimer(Template(c))

\* The urgent-safety reply was returned: its one sentence, the line breaks,
\* the disclaimer.
WitnessC4 ==
  /\ pc = "returned"
  /\ result = UrgentReply
  /\ Len(result) = Len(disclaimer) + 3

\* C6: what a call returns is exactly one of the seven fixed replies, and
\* it is a function of the input alone: the reply of the first category that
\* matches, the default reply when none does.
TheoremC6 ==
  pc = "returned" =>
    LET h == Hits(text)
    IN  /\ Cardinality({c \in Branches : Template(c) = result}) = 1
        /\ result = Template(IF h = {} THEN NumCategories + 1 ELSE First(h))

\* The empty string was answered.
WitnessC6 ==
  /\ pc = "returned"
  /\ text = <<>>
  /\ result \in {Template(c) : c \in Branches}

IsLetter(c) == c \in DOMAIN LowerOf \/ c \in DOMAIN UpperOf \/ c = LONG_S

\* k occurs in lt, a text with its letter case ignored, with a letter
\* directly before or directly after it.
Embedded(k, lt) ==
  \E i \in 0..(Len(lt) - Len(k)) :
    /\ \A j \in 1..Len(k) : lt[i + j] = k[j]
    /\ \/ i >= 1 /\ IsLetter(lt[i])
       \/ i + Len(k) < Len(lt) /\ IsLetter(lt[i + Len(k) + 1])

\* C9: a keyword inside a longer word triggers its category as a standalone
\* keyword does (the reply is that category's or an earlier one's); a reply
\* of a category is given only when one of its keywords occurs character by
\* character, so a multi-word keyword whose space is dropped, doubled or
\* replaced matches nothing.
TheoremC9 ==
  pc = "returned" =>
    LET lt == LetterCaseIgnored(text)
    IN  /\ \A c \in 1..NumCategories :
             (\E n \in 1..Len(SpecKeywords[c]) : Embedded(SpecKeywords[c][n], lt))
               => result \in {Template(d) : d \in 1..c}
        /\ \A c \in 1..NumCategories :
             result = Template(c) =>
               \E n \in 1..Len(SpecKeywords[c]) : Occurs(SpecKeywords[c][n], lt)
        /\ lt \in BrokenKeywords => result = DefaultReply

\* "blog" was answered with the record-keeping reply.
WitnessC9 ==
  /\ pc = "returned"
  /\ text = Str_blog
  /\ Embedded(<<"l","o","g">>, LetterCaseIgnored(text))
  /\ result = RecordsReply

\* C10: a message that is one keyword gets the reply of the keyword's own
\* category: no keyword of an earlier category occurs in it.
TheoremC10 ==
  pc = "returned" =>
    \A c \in 1..NumCategories :
      (\E n \in 1..Len(SpecKeywords[c]) : text = SpecKeywords[c][n]) =>
        /\ result = Template(c)
        /\ \A d \in 1..(c - 1) : d \notin Hits(text)

\* "stroke", the last keyword of the last category, got the urgent reply.
WitnessC10 ==
  /\ pc = "returned"
  /\ text = Str_stroke
  /\ result = UrgentReply

----------------------------------------------------------------------------
(* Claims about POST /api/chat, checked under Spec *)

Responded(c) == reqs[c].pc = "responded"

\* x and y are one letter in two cases, or the same character.
ToSameLetter(x, y) == x = y \/ ToUpper(x) = y \/ x = ToUpper(y)

\* a and b differ at most in the letter case of their characters.
CaseVariants(a, b) ==
  /\ Len(a) = Len(b)
  /\ \A i \in 1..Len(a) : ToSameLetter(a[i], b[i])

\* C5: two messages that differ only in the letter case of their characters
\* get the same reply.
ClaimC5 ==
  \A c, d \in Conns :
    (Responded(c) /\ Responded(d)
       /\ CaseVariants(reqs[c].body.message, reqs[d].body.message))
      => reqs[c].resp = reqs[d].resp

\* A step touches one connection only.
OneConnectionPerStep ==
  \A c, d \in Conns : (reqs'[c] # reqs[c] /\ reqs'[d] # reqs[d]) => c = d

\* C7: whatever the other connections do, a response carries generate_reply
\* of its own request's message, and serving a request changes nothing of
\* another request.
TheoremC7 ==
  /\ [](\A c \in Conns :
          Responded(c) => reqs[c].resp.reply = generate_reply(reqs[c].body.message))
  /\ [][OneConnectionPerStep]_vars

\* Two requests with different messages were in service together and got
\* different replies.
WitnessC7 ==
  \E c, d \in Conns :
    /\ Responded(c) /\ Responded(d)
    /\ reqs[c].body.message # reqs[d].body.message
    /\ reqs[c].resp.reply = FitnessReply
    /\ reqs[d].resp.reply = WellnessReply

\* C8: the history is ignored: same message, different (or absent) history,
\* same reply.
TheoremC8 ==
  \A c, d \in Conns :
    (Responded(c) /\ Responded(d)
       /\ reqs[c].body.message = reqs[d].body.message
       /\ reqs[c].body # reqs[d].body)
      => reqs[c].resp = reqs[d].resp

\* The same message was answered once without a history and once with a
\* history whose last user turn is about another topic.
WitnessC8 ==
  \E c, d \in Conns :
    /\ Responded(c) /\ Responded(d)
    /\ reqs[c].body.message = reqs[d].body.message
    /\ "history" \notin DOMAIN reqs[c].body
    /\ "history" \in DOMAIN reqs[d].body
    /\ reqs[d].req.history # <<>>
    /\ reqs[c].resp.reply = FitnessReply
    /\ reqs[d].resp.reply = FitnessReply

====
